---- MODULE Spec2Model ----
(***************************************************************************)
(* Model of the named-entity-recognition pipeline of                       *)
(* src/src/pipelines/ner.rs: NERModel::prepare_for_model and               *)
(* NERModel::predict.                                                      *)
(*                                                                         *)
(* A text is represented by the token ids the tokenizer produces for it,   *)
(* and the token-classification model by the logits it returns: both are   *)
(* libraries outside this file, so the tokenization of a text and the      *)
(* logits of a forward pass are inputs drawn from bounded sets.  A Rust    *)
(* Vec is a sequence (indexed from 1), a tensor is a function over         *)
(* 0..n-1, as the code indexes it.  A floating point score is the exact    *)
(* fraction [num, den]; exp is the strictly increasing function 2^x.       *)
(***************************************************************************)
EXTENDS Integers, Sequences, FiniteSets, TLC

\* Largest padded batch: number of texts times the longest tokenized length.
MaxCells == 4

\* Maximum tokenized length passed to encode_list.
MaxSeqLen == 128

\* The id prepare_for_model pads with.
PadId == 0

\* The label id predict filters out.
NonEntityLabel == 0

\* Ids of the word-pieces texts are made of.
WordIds == {1, 2}

\* Label ids of the classifier head (num_labels of the configuration).
LabelIds == {0, 1}

\* Values a logit takes.
Logits == {0, 1}

\* Names the configuration file gives to label ids (id2label).
LabelName == (0 :> "O") @@ (1 :> "I-PER")

\* Vocabulary of the tokenizer, [PAD] being a special token.
Vocab == (0 :> "[PAD]") @@ (1 :> "Amy") @@ (2 :> "Paris")

SpecialIds == {0}

None == [kind |-> "None", value |-> <<>>, msg |-> ""]

VARIABLES
    tokenizer,      \* self.tokenizer: the vocabulary
    label_mapping,  \* self.label_mapping: HashMap<i64, String>
    pc,             \* position of the predict call
    input,          \* token_ids of each text of the batch (encode_list)
    input_tensor,   \* the padded batch
    output,         \* logits returned by forward_t
    score,          \* softmax of output
    labels_idx,     \* argmax of score
    entities,       \* the local vector of predict
    result          \* what the call handed to its caller

vars == <<tokenizer, label_mapping, pc, input, input_tensor, output, score,
          labels_idx, entities, result>>

----
\* Helpers

Min(a, b) == IF a <= b THEN a ELSE b

\* Token id sequences the tokenizer can return for one text: at least one
\* token, at most n tokens, n being at most max_len (128).
TokenIdSeqs(n) == UNION {[1..m -> WordIds] : m \in 1..Min(n, MaxSeqLen)}

\* Results of encode_list for a batch of texts (the empty batch included):
\* k texts whose padded batch has at most MaxCells cells.
TokenizedInputs == {<<>>} \cup UNION {[1..k -> TokenIdSeqs(MaxCells \div k)] : k \in 1..MaxCells}

\* Label mappings a configuration file can provide.
LabelMappings == {[l \in S |-> LabelName[l]] : S \in SUBSET LabelIds}

\* Iterator::max over the token counts: None on an empty iterator.
RECURSIVE MaxOf(_)
MaxOf(S) ==
    IF S = {} THEN [some |-> FALSE, v |-> 0]
    ELSE LET x == CHOOSE y \in S : TRUE
             m == MaxOf(S \ {x})
         IN IF m.some /\ m.v >= x THEN m ELSE [some |-> TRUE, v |-> x]

MaxLenOf(tokenized_input) == MaxOf({Len(tokenized_input[i]) : i \in 1..Len(tokenized_input)})

\* vec![0; n]
Zeros(n) == [i \in 1..n |-> PadId]

\* Padding put before the token ids instead of after them.
PadLeft(ids, max_len) == Zeros(max_len - Len(ids)) \o ids

\* input.extend(vec![0; max_len - input.len()])
PadRight(ids, max_len) == ids \o Zeros(max_len - Len(ids))

\* Tensor::of_slice
OfSlice(v) == [i \in 0..(Len(v) - 1) |-> v[i + 1]]

\* Tensor::stack(rows, 0)
Stack(rows) == [b \in 0..(Len(rows) - 1) |-> rows[b + 1]]

\* The body of prepare_for_model once max_len is known.
PaddedBatch(tokenized_input, max_len) ==
    Stack([i \in 1..Len(tokenized_input) |-> OfSlice(PadRight(tokenized_input[i], max_len))])

\* size()[0] of a tensor
Size0(t) == Cardinality(DOMAIN t)


\* exp of a logit: strictly increasing and positive.
Exp(x) == 2 ^ x

\* Sum of the exponentials of a row, from label l on.
RECURSIVE SumExp(_, _)
SumExp(row, l) == IF l \notin DOMAIN row THEN 0 ELSE Exp(row[l]) + SumExp(row, l + 1)

\* output.exp() / output.exp().sum1(&[-1], true, Float), for one position
SoftmaxRow(row) ==
    LET sum == SumExp(row, 0) IN [l \in DOMAIN row |-> [num |-> Exp(row[l]), den |-> sum]]

Softmax(t) == [b \in DOMAIN t |-> [p \in DOMAIN t[b] |-> SoftmaxRow(t[b][p])]]

\* Comparison of two scores (fractions with positive denominators).
ScoreLess(a, b) == a.num * b.den < b.num * a.den

\* A scan that replaces the best label by one that is not smaller: the last
\* maximal value wins.
RECURSIVE ArgmaxScanLast(_, _, _)
ArgmaxScanLast(row, l, best) ==
    IF l \notin DOMAIN row THEN best
    ELSE ArgmaxScanLast(row, l + 1, IF ScoreLess(row[l], row[best]) THEN best ELSE l)

\* argmax along the label axis for one position: the scan keeps the first
\* maximal value, replacing it only by a strictly greater one.
RECURSIVE ArgmaxScan(_, _, _)
ArgmaxScan(row, l, best) ==
    IF l \notin DOMAIN row THEN best
    ELSE ArgmaxScan(row, l + 1, IF ScoreLess(row[best], row[l]) THEN l ELSE best)

ArgmaxRow(row) == ArgmaxScan(row, 1, 0)

\* score.argmax(-1, true); the kept label axis of size 1 is dropped.
Argmax(t) == [b \in DOMAIN t |-> [p \in DOMAIN t[b] |-> ArgmaxRow(t[b][p])]]

\* Tokenizer::decode(&self.tokenizer, vec!(id), true, true): the token of
\* the id, special tokens skipped.
DecodeIds(tok, ids) == IF ids[1] \in SpecialIds THEN "" ELSE tok[ids[1]]

\* A filter that lets every label through.
IsAnyLabel(label) == label >= NonEntityLabel

\* if label != 0
IsEntityLabel(label) == label # NonEntityLabel

\* self.label_mapping.get(&label)
Get(mapping, label) ==
    IF label \in DOMAIN mapping THEN [some |-> TRUE, v |-> mapping[label]]
    ELSE [some |-> FALSE, v |-> ""]

\* An insertion at the front of the vector.
PushFront(v, e) == <<e>> \o v

\* entities.push(e)
Push(v, e) == Append(v, e)

\* An Entity whose word is decoded from the first token of the text.
NewEntityFirstToken(tok, mapping, tensor, sc, sentence_idx, position_idx, label) ==
    [word |-> DecodeIds(tok, <<tensor[sentence_idx][0]>>),
     score |-> sc[sentence_idx][position_idx][label],
     label |-> Get(mapping, label).v,
     sentence_idx |-> sentence_idx,
     position_idx |-> position_idx]

\* The Entity pushed for one position.  sentence_idx and position_idx are
\* not fields of the Rust struct: they record the loop indices of the push.
NewEntity(tok, mapping, tensor, sc, sentence_idx, position_idx, label) ==
    [word |-> DecodeIds(tok, <<tensor[sentence_idx][position_idx]>>),
     score |-> sc[sentence_idx][position_idx][label],
     label |-> Get(mapping, label).v,
     sentence_idx |-> sentence_idx,
     position_idx |-> position_idx]

\* Loops that look the label name up before they test the label.
RECURSIVE DecodeLoopEagerLookup(_, _, _, _, _, _, _, _)
DecodeLoopEagerLookup(tok, mapping, tensor, sc, lab, sentence_idx, position_idx, acc) ==
    IF sentence_idx >= Size0(lab)
    THEN [panicked |-> FALSE, entities |-> acc]
    ELSE IF position_idx >= Size0(lab[sentence_idx])
    THEN DecodeLoopEagerLookup(tok, mapping, tensor, sc, lab, sentence_idx + 1, 0, acc)
    ELSE LET label == lab[sentence_idx][position_idx] IN
         IF ~Get(mapping, label).some
         THEN [panicked |-> TRUE, entities |-> acc]
         ELSE IF IsEntityLabel(label)
         THEN DecodeLoopEagerLookup(tok, mapping, tensor, sc, lab, sentence_idx, position_idx + 1,
                                    Push(acc, NewEntity(tok, mapping, tensor, sc,
                                                        sentence_idx, position_idx, label)))
         ELSE DecodeLoopEagerLookup(tok, mapping, tensor, sc, lab, sentence_idx, position_idx + 1, acc)

\* The two nested loops of predict, from (sentence_idx, position_idx) on.
\* expect() on a missing label panics: the loop stops with what was pushed.
RECURSIVE DecodeLoop(_, _, _, _, _, _, _, _)
DecodeLoop(tok, mapping, tensor, sc, lab, sentence_idx, position_idx, acc) ==
    IF sentence_idx >= Size0(lab)
    THEN [panicked |-> FALSE, entities |-> acc]
    ELSE IF position_idx >= Size0(lab[sentence_idx])
    THEN DecodeLoop(tok, mapping, tensor, sc, lab, sentence_idx + 1, 0, acc)
    ELSE LET label == lab[sentence_idx][position_idx] IN
         IF IsEntityLabel(label)
         THEN IF Get(mapping, label).some
              THEN DecodeLoop(tok, mapping, tensor, sc, lab, sentence_idx, position_idx + 1,
                              Push(acc, NewEntity(tok, mapping, tensor, sc,
                                                  sentence_idx, position_idx, label)))
              ELSE [panicked |-> TRUE, entities |-> acc]
         ELSE DecodeLoop(tok, mapping, tensor, sc, lab, sentence_idx, position_idx + 1, acc)

Ok(v) == [kind |-> "Ok", value |-> v, msg |-> ""]

Panic(msg) == [kind |-> "Panic", value |-> <<>>, msg |-> msg]

----
\* The pipeline after NERModel::new.
Init ==
    /\ tokenizer = Vocab
    /\ label_mapping \in LabelMappings
    /\ pc = "idle"
    /\ input = <<>>
    /\ input_tensor = <<>>
    /\ output = <<>>
    /\ score = <<>>
    /\ labels_idx = <<>>
    /\ entities = <<>>
    /\ result = None

\* predict(&self, input) is called with a batch of texts.
Call ==
    /\ pc = "idle"
    /\ \E tokenized_input \in TokenizedInputs : input' = tokenized_input
    /\ pc' = "prepare"
    /\ result' = None
    /\ UNCHANGED <<tokenizer, label_mapping, input_tensor, output, score, labels_idx, entities>>

\* prepare_for_model: unwrap() of the maximum panics on an empty batch.
PrepareForModel ==
    /\ pc = "prepare"
    /\ LET max_len == MaxLenOf(input) IN
       IF max_len.some
       THEN /\ input_tensor' = PaddedBatch(input, max_len.v)
            /\ pc' = "forward"
            /\ result' = result
       ELSE /\ input_tensor' = input_tensor
            /\ pc' = "done"
            /\ result' = Panic("called Option::unwrap on a None value")
    /\ UNCHANGED <<tokenizer, label_mapping, input, output, score, labels_idx, entities>>

\* A decoding that caches a default name for every label it does not know.
ForwardAndDecodeCaching ==
    /\ pc = "forward"
    /\ output' \in [DOMAIN input_tensor -> [DOMAIN input_tensor[0] -> [LabelIds -> Logits]]]
    /\ score' = Softmax(output')
    /\ labels_idx' = Argmax(score')
    /\ label_mapping' = [l \in DOMAIN label_mapping \cup
                                {labels_idx'[b][p] : b \in DOMAIN labels_idx', p \in DOMAIN input_tensor[0]} |->
                            IF l \in DOMAIN label_mapping THEN label_mapping[l] ELSE "O"]
    /\ \E r \in {DecodeLoop(tokenizer, label_mapping', input_tensor, score', labels_idx', 0, 0, <<>>)} :
          /\ entities' = r.entities
          /\ result' = IF r.panicked THEN Panic("Index out of vocabulary bounds.")
                       ELSE Ok(r.entities)
    /\ pc' = "done"
    /\ UNCHANGED <<tokenizer, input, input_tensor>>

\* forward_t returns logits of shape (batch, max_len, num_labels); predict
\* normalises them, takes the argmax, builds the entities in its two loops
\* and returns the vector.
ForwardAndDecode ==
    /\ pc = "forward"
    /\ output' \in [DOMAIN input_tensor -> [DOMAIN input_tensor[0] -> [LabelIds -> Logits]]]
    /\ score' = Softmax(output')
    /\ labels_idx' = Argmax(score')
    /\ \E r \in {DecodeLoop(tokenizer, label_mapping, input_tensor, score', labels_idx', 0, 0, <<>>)} :
          /\ entities' = r.entities
          /\ result' = IF r.panicked THEN Panic("Index out of vocabulary bounds.")
                       ELSE Ok(r.entities)
    /\ pc' = "done"
    /\ UNCHANGED <<tokenizer, label_mapping, input, input_tensor>>

\* The call is over: its tensors and its vector are released.
Return ==
    /\ pc = "done"
    /\ pc' = "idle"
    /\ input' = <<>>
    /\ input_tensor' = <<>>
    /\ output' = <<>>
    /\ score' = <<>>
    /\ labels_idx' = <<>>
    /\ entities' = <<>>
    /\ result' = None
    /\ UNCHANGED <<tokenizer, label_mapping>>

Next == Call \/ PrepareForModel \/ ForwardAndDecode \/ Return

Spec == Init /\ [][Next]_vars

----
\* Properties

\* Positions of the padded batch of the current call.
Cells == UNION {{<<b, p>> : p \in DOMAIN labels_idx[b]} : b \in DOMAIN labels_idx}

LabelAt(c) == labels_idx[c[1]][c[2]]

TokenAt(c) == input_tensor[c[1]][c[2]]

Coord(e) == <<e.sentence_idx, e.position_idx>>

Returned == result.value

ScoreEq(a, b) == a.num * b.den = b.num * a.den

Before(c, d) == c[1] < d[1] \/ (c[1] = d[1] /\ c[2] < d[2])

\* C1: the list predict returns is in batch-major then position-major
\* order: an entity of text i precedes every entity of text j > i, and the
\* entities of one text follow each other in increasing token position.
C1_BatchMajorOrder ==
    pc = "done" =>
        \A i, j \in 1..Len(Returned) :
            i < j => Before(Coord(Returned[i]), Coord(Returned[j]))

C1_Witness ==
    /\ pc = "done"
    /\ result.kind = "Ok"
    /\ \E i, j \in 1..Len(Returned) :
          i < j /\ Returned[i].sentence_idx < Returned[j].sentence_idx
    /\ \E i, j \in 1..Len(Returned) :
          /\ i < j
          /\ Returned[i].sentence_idx = Returned[j].sentence_idx
          /\ Returned[i].position_idx < Returned[j].position_idx

\* C2: no returned Entity was produced from a position whose predicted
\* label id is 0, whatever name the label mapping gives to id 0.
C2_NonEntityFiltered ==
    pc = "done" =>
        \A i \in 1..Len(Returned) : LabelAt(Coord(Returned[i])) # 0

C2_Witness ==
    /\ pc = "done"
    /\ result.kind = "Ok"
    /\ Returned # <<>>
    /\ 0 \in DOMAIN label_mapping
    /\ \E c \in Cells : LabelAt(c) = 0

\* C3: for a non-empty batch the padded batch is rectangular, its row
\* length is the longest tokenized length of the batch, each row starts
\* with the token ids of its text in order, and every cell after them holds
\* the padding id 0.
C3_PaddedBatch ==
    (pc \in {"forward", "done"} /\ input # <<>>) =>
        \E max_len \in {Len(input[i]) : i \in 1..Len(input)} :
            /\ \A i \in 1..Len(input) : Len(input[i]) <= max_len
            /\ DOMAIN input_tensor = 0..(Len(input) - 1)
            /\ \A b \in DOMAIN input_tensor :
                  /\ DOMAIN input_tensor[b] = 0..(max_len - 1)
                  /\ \A p \in DOMAIN input_tensor[b] :
                        input_tensor[b][p] =
                            IF p < Len(input[b + 1]) THEN input[b + 1][p + 1] ELSE 0

C3_Witness ==
    /\ pc = "forward"
    /\ \E i, j \in 1..Len(input) : Len(input[i]) < Len(input[j])
    /\ \E i \in 1..Len(input) : Len(input[i]) > 1 /\ input[i][1] # input[i][2]

\* C4: when the model predicts a non-zero label id that the label mapping
\* lacks, the call fails with a ConfigurationError value handed to the
\* caller and returns no entity.
C4_UnmappedLabelIsConfigurationError ==
    (pc = "done" /\ \E c \in Cells : LabelAt(c) # 0 /\ LabelAt(c) \notin DOMAIN label_mapping) =>
        (result.kind = "ConfigurationError" /\ Returned = <<>>)

\* C5: when the predicted label of every position of the batch is 0, the
\* call returns the empty list and does not fail, even with a label mapping
\* that is empty or has no entry for id 0.
C5_AllNonEntityIsEmptyOk ==
    (pc = "done" /\ output # <<>> /\ \A c \in Cells : LabelAt(c) = 0) =>
        result = Ok(<<>>)

C5_Witness ==
    /\ pc = "done"
    /\ output # <<>>
    /\ \A c \in Cells : LabelAt(c) = 0
    /\ DOMAIN label_mapping = {}
    /\ result.kind = "Ok"

\* C6: a call with an empty list of texts is either rejected with an error
\* value or returns the empty list; it does not abort in the computation of
\* the longest length.
C6_EmptyBatchHandled ==
    (pc = "done" /\ input = <<>>) =>
        (result.kind = "InputError" \/ result = Ok(<<>>))

C9_OneEntityPerPosition ==
    (pc = "done" /\ result.kind = "Ok") =>
        /\ \A c \in Cells :
              Cardinality({i \in 1..Len(Returned) : Coord(Returned[i]) = c})
                  = IF LabelAt(c) # 0 THEN 1 ELSE 0
        /\ \A i \in 1..Len(Returned) :
              LET c == Coord(Returned[i]) IN
              /\ c \in Cells
              /\ Returned[i].word = IF TokenAt(c) \in SpecialIds THEN "" ELSE tokenizer[TokenAt(c)]
              /\ LabelAt(c) \in DOMAIN label_mapping
              /\ Returned[i].label = label_mapping[LabelAt(c)]

C9_Witness ==
    /\ pc = "done"
    /\ result.kind = "Ok"
    /\ \E i \in 1..(Len(Returned) - 1) :
          /\ Returned[i].sentence_idx = Returned[i + 1].sentence_idx
          /\ Returned[i].position_idx + 1 = Returned[i + 1].position_idx
          /\ Returned[i].label = Returned[i + 1].label
          /\ Returned[i].word # Returned[i + 1].word

\* C10: every returned Entity comes from a position that holds a token of
\* its text: none comes from a padding cell, at or after the tokenized
\* length of the text.
C10_NoEntityFromPadding ==
    pc = "done" =>
        \A i \in 1..Len(Returned) :
            Returned[i].position_idx < Len(input[Returned[i].sentence_idx + 1])

====
